---- MODULE Spec2Model ----
(***************************************************************************)
(* Token lifecycle of the Questrade broker client                          *)
(* (piker/brokers/questrade.py) and its config store                       *)
(* (piker/brokers/config.py).                                              *)
(*                                                                         *)
(* One run of the get_client context manager is modelled, split at its     *)
(* await points: the refresh request of _new_auth_token and the liveness   *)
(* request of api.time.  The wall clock may advance between any two steps. *)
(* Dicts are functions from keys to values; an absent key is a key outside *)
(* the DOMAIN.  The Authorization header "<type> <token>" and the base     *)
(* URL "<server><version>" are pairs of their two parts.                   *)
(* config.load is taken to return a mapping that answers has_section, as   *)
(* get_config assumes.                                                     *)
(*                                                                         *)
(* Spec       one run of get_client                                        *)
(* SpecStore  config.load and config.write called on their own             *)
(* SpecClient one Client whose methods are called by two tasks             *)
(***************************************************************************)
EXTENDS Integers, Sequences, FiniteSets, TLC

VARIABLES now, dirExists, fileExists, fileConf, conf, access_data, sess,
          pc, result, events, ea, lastResp, sentToken, probeAuth, probeRec,
          atYield, tasks

vars == <<now, dirExists, fileExists, fileConf, conf, access_data, sess,
          pc, result, events, ea, lastResp, sentToken, probeAuth, probeRec,
          atYield, tasks>>

----------------------------------------------------------------------------
(* Bounds *)

\* clock reading when get_client is entered
T0 == 2
\* number of clock ticks that may pass during one run
MaxTicks == 3
\* largest expires_in the token endpoint declares
MaxExpiresIn == 2
\* calls each task makes on a shared client
MaxCalls == 2
\* calls made on the config store
MaxStoreCalls == 3

MaxClock == T0 + MaxTicks

----------------------------------------------------------------------------
(* Dict helpers *)

EmptyRec == [k \in {} |-> ""]

\* dict.get(key, default)
Get(d, k, default) == IF k \in DOMAIN d THEN d[k] ELSE default

\* a.update(b)
Update(a, b) ==
    [k \in DOMAIN a \cup DOMAIN b |-> IF k \in DOMAIN b THEN b[k] ELSE a[k]]

\* d[k] = v
Put(d, k, v) == [x \in DOMAIN d \cup {k} |-> IF x = k THEN v ELSE d[x]]

\* truth value of d.get(k) for a string-valued key: absent (None) and ""
\* are both false
Truthy(d, k) == k \in DOMAIN d /\ d[k] # ""

Count(e) == Cardinality({i \in 1..Len(events) : events[i] = e})

Positions(e) == {i \in 1..Len(events) : events[i] = e}

----------------------------------------------------------------------------
(* Constants of questrade.py *)

_version == "v1"

----------------------------------------------------------------------------
(* The config files a run may start from *)

SeedRecord == [refresh_token |-> "abc"]

FullRecord(at, exp) ==
    [refresh_token |-> "abc", access_token |-> at, token_type |-> "Bearer",
     api_server |-> "https://w/", expires_in |-> 1, expires_at |-> exp,
     user |-> "u1"]

NoExpiryRecord ==
    [refresh_token |-> "abc", access_token |-> "W", token_type |-> "Bearer",
     api_server |-> "https://w/", user |-> "u1"]

\* a hand-edited record: token and expiry, but no token_type or api_server
PartialRecord ==
    [refresh_token |-> "abc", access_token |-> "W", expires_at |-> T0 + 2]

StoredRecords ==
    {SeedRecord, NoExpiryRecord, PartialRecord, [refresh_token |-> ""],
     [user |-> "u1"]}
    \cup {FullRecord(at, exp) : at \in {"W", ""}, exp \in (T0 - 1)..(T0 + 2)}

InitialFiles ==
    {[questrade |-> r] : r \in StoredRecords} \cup {[other |-> [k |-> "v"]]}

\* 200 OK bodies of the token endpoint (the remote wire contract)
RefreshResponses ==
    [access_token : {"X", "Y"}, token_type : {"Bearer"},
     api_server : {"https://x/"}, expires_in : 1..MaxExpiresIn,
     refresh_token : {"abc2", "abc3"}]

PromptInputs == {"abc", ""}

CallerOutcomes == {"normal", "raise", "cancel"}

\* answers of the token endpoint on which resproc raises: a non-200 status
\* with a JSON body, a non-200 status with a body that is not JSON, and a
\* 200 whose body is not JSON
ErrorResponses ==
    {[status |-> 400, json |-> TRUE, body |-> "invalid_grant"],
     [status |-> 400, json |-> FALSE, body |-> "Bad Request"],
     [status |-> 200, json |-> FALSE, body |-> "<html>"]}

NoResponse == [status |-> 0, json |-> FALSE, body |-> ""]

NoError == [type |-> "none", body |-> ""]

\* the most recent call of enable_access: its argument, the record, the
\* session and the clock reading at its entry, the record right after the
\* merge of _new_auth_token, its latest time.time() reading, how it ended,
\* and the failed response and the exception if it raised
NoCall ==
    [force |-> FALSE, entry |-> EmptyRec, entryNow |-> 0,
     merged |-> EmptyRec, clock |-> 0, state |-> "none",
     sessEntry |-> [Authorization |-> <<>>, base_location |-> <<>>],
     resp |-> NoResponse, error |-> NoError]

\* tasks that use one Client directly and at the same time
Tasks == {"t1", "t2"}

\* a task that is not inside a call of the client
IdleTask == [pc |-> "idle", op |-> "none", result |-> "none", sent |-> "",
             outcome |-> "none", calls |-> 0]

\* records a Client is constructed with directly
ClientRecords == {SeedRecord, FullRecord("W", T0 - 1), FullRecord("W", T0 + 1)}

\* how the revoke request ends: a 200 answer, a non-200 answer, or an
\* exception of the transport
RevokeOutcomes == {"ok", "non200", "transport_error"}

\* configs handed to config.write
WriteInputs == InitialFiles \cup {EmptyRec}

NoTasks == [t \in Tasks |-> IdleTask]

----------------------------------------------------------------------------
(* config.py *)

\* toml.dump: every section becomes a table holding its keys and values
TomlDump(config) ==
    [s \in DOMAIN config |-> [k \in DOMAIN config[s] |-> config[s][k]]]

\* write(): "if not config: raise ValueError"
WriteRaises(config) == DOMAIN config = {}

\* write(): the directory is made when missing, then a blank config is
\* refused, then the file is opened for writing and the config dumped
ConfigWrite(config) ==
    /\ dirExists' = TRUE
    /\ IF WriteRaises(config)
       THEN UNCHANGED <<fileExists, fileConf>>
       ELSE /\ fileExists' = TRUE
            /\ fileConf' = TomlDump(config)

----------------------------------------------------------------------------
(* questrade.py: resproc *)

\* resproc: resp.json() is evaluated first and raises on a body that is not
\* JSON; then a status other than 200 raises QuestradeError(resp.body)
ResprocError(resp) ==
    IF ~resp.json
    THEN [type |-> "JSONDecodeError", body |-> ""]
    ELSE IF resp.status # 200
    THEN [type |-> "QuestradeError", body |-> resp.body]
    ELSE NoError

----------------------------------------------------------------------------
(* questrade.py: Client *)

\* changed: the body is merged before the status is looked at
RecordOnError_Merged(rec, resp) == Update(rec, [error |-> resp.body])

\* _new_auth_token: resproc raises before access_data.update(data) is
\* reached, the record stays as it is
RecordOnError(rec, resp) == rec

\* changed: the expiry is not looked at
NeedsRefresh_NoExpiry(rec, t, force) ==
    ~Truthy(rec, "access_token") \/ force

\* changed: the cached token is never reused
NeedsRefresh_Always(rec, t, force) == TRUE

\* changed: a token expiring at this very instant counts as expired
NeedsRefresh_Leq(rec, t, force) ==
    \/ ~Truthy(rec, "access_token")
    \/ Get(rec, "expires_at", 0) <= t
    \/ force

\* enable_access: "if not access_token or (expires < time.time()) or
\* force_refresh", with expires = float(access_data.get('expires_at', 0))
NeedsRefresh(rec, t, force) ==
    \/ ~Truthy(rec, "access_token")
    \/ Get(rec, "expires_at", 0) < t
    \/ force

\* changed: fields the record already has are kept
MergeResponse_KeepOld(rec, data) == Update(data, rec)

\* _new_auth_token: self.access_data.update(data)
MergeResponse(rec, data) == Update(rec, data)

\* changed: the relative duration is stored
ExpiresAt_Relative(t, data) == data["expires_in"]

\* enable_access: time.time() + float(data['expires_in'])
ExpiresAt(t, data) == t + data["expires_in"]

\* changed: the API version is not appended to the base URL
PrepSess_NoVersion(rec) ==
    [Authorization |-> <<rec["token_type"], rec["access_token"]>>,
     base_location |-> <<rec["api_server"], "">>]

\* _prep_sess: Authorization header and base_location of the session
PrepSess(rec) ==
    [Authorization |-> <<rec["token_type"], rec["access_token"]>>,
     base_location |-> <<rec["api_server"], _version>>]

\* _prep_sess raises KeyError when one of the keys it reads is missing
PrepSessRaises(rec) ==
    ~({"token_type", "access_token", "api_server"} \subseteq DOMAIN rec)

----------------------------------------------------------------------------
(* questrade.py: get_client *)

\* get_config: the negation of "not conf.has_section('questrade') or not
\* conf['questrade'].get('refresh_token')"
HasRefreshToken(c) ==
    /\ "questrade" \in DOMAIN c
    /\ Truthy(c["questrade"], "refresh_token")

\* "yield client": reaching the yield hands the client to the caller
YieldEvents(p) == IF p = "yielded" THEN <<"yield">> ELSE <<>>

\* changed: the try block encloses the yield only
InTry_YieldOnly(p) == p = "yielded"

\* changed: the try block encloses the call of Client.from_config
InTry_FromConfig(p) ==
    p \in {"from_config", "refresh_init", "probe1", "refresh_forced",
           "probe2", "yielded"}

\* changed: the try block opens before Client.from_config
InTry_WholeBody(p) == p # "start"

\* the positions of get_client that lie inside "try: ... finally:"
InTry(p) == p \in {"probe1", "refresh_forced", "probe2", "yielded"}

\* changed: the store is written after the yield without a finally
FinallyRuns_NormalOnly(outcome) == outcome = "normal"

\* "finally" runs on every way out of the scope
FinallyRuns(outcome) == TRUE

\* changed: the except branch yields without probing again
AfterForcedRefresh_NoRetry == "yielded"

\* the except branch of the first probe ends with a second api.time()
AfterForcedRefresh == "probe2"

\* changed: every failed probe is answered by another forced refresh
ProbeFailTarget_Loop(p) == "refresh_forced"

\* where a failed probe leads: the first into the except branch, the
\* second out of get_client
ProbeFailTarget(p) == IF p = "probe1" THEN "refresh_forced" ELSE "done"

\* where a successful probe leads
ProbeOkTarget(p) == "yielded"

\* changed: the config is written back as it was loaded
FinallyConf_Loaded(c, rec) == c

\* the record the finally block stores: conf['questrade'] = client.access_data
FinallyConf(c, rec) == Put(c, "questrade", rec)

Init ==
    /\ now = T0
    /\ \E exists \in BOOLEAN :
         /\ fileExists = exists
         /\ dirExists \in (IF exists THEN {TRUE} ELSE BOOLEAN)
         /\ fileConf \in (IF exists THEN InitialFiles ELSE {EmptyRec})
    /\ conf = EmptyRec
    /\ access_data = EmptyRec
    /\ sess = [Authorization |-> <<>>, base_location |-> <<>>]
    /\ pc = "start"
    /\ result = "none"
    /\ events = <<>>
    /\ ea = NoCall
    /\ lastResp = EmptyRec
    /\ sentToken = ""
    /\ probeAuth = <<>>
    /\ probeRec = EmptyRec
    /\ atYield = EmptyRec
    /\ tasks = NoTasks

\* the wall clock advances
Tick ==
    /\ pc # "done"
    /\ UNCHANGED tasks
    /\ now < MaxClock
    /\ now' = now + 1
    /\ UNCHANGED <<dirExists, fileExists, fileConf, conf, access_data, sess,
                   pc, result, events, ea, lastResp, sentToken, probeAuth,
                   probeRec, atYield>>

\* the finally block of get_client followed by the exit of the scope; it
\* stores the record the client holds when the block is entered
Finally(res, evs) ==
    /\ conf' = FinallyConf(conf, access_data')
    /\ ConfigWrite(conf')
    /\ events' = evs \o <<"write">>
    /\ pc' = "done"
    /\ result' = res

\* leaving get_client with an error before the try block was entered
Propagate(evs) ==
    /\ events' = evs
    /\ pc' = "done"
    /\ result' = "error"
    /\ UNCHANGED <<dirExists, fileExists, fileConf, conf>>

\* get_config: config.load fails because there is no file
LoadFail ==
    /\ pc = "start"
    /\ UNCHANGED tasks
    /\ ~fileExists
    /\ Propagate(events \o <<"load_fail">>)
    /\ UNCHANGED <<now, access_data, sess, ea, lastResp, sentToken,
                   probeAuth, probeRec, atYield>>

\* get_config: the stored section is used as it is
GetConfigStored ==
    /\ pc = "start"
    /\ UNCHANGED tasks
    /\ fileExists
    /\ HasRefreshToken(fileConf)
    /\ conf' = fileConf
    /\ events' = events \o <<"load">>
    /\ pc' = "from_config"
    /\ UNCHANGED <<now, dirExists, fileExists, fileConf, access_data, sess,
                   result, ea, lastResp, sentToken, probeAuth, probeRec,
                   atYield>>

\* get_config: no usable refresh token, the operator is asked for one
GetConfigPrompt ==
    /\ pc = "start"
    /\ UNCHANGED tasks
    /\ fileExists
    /\ ~HasRefreshToken(fileConf)
    /\ \E refresh_token \in PromptInputs :
         conf' = Put(fileConf, "questrade", [refresh_token |-> refresh_token])
    /\ events' = events \o <<"load", "prompt">>
    /\ pc' = "from_config"
    /\ UNCHANGED <<now, dirExists, fileExists, fileConf, access_data, sess,
                   result, ea, lastResp, sentToken, probeAuth, probeRec,
                   atYield>>

\* the start of enable_access on record rec up to its first await; inTry
\* tells whether the call is made inside the try block, wait is the
\* position of the refresh request and next the position after a return
\* without refresh
EnableAccessBegin(rec, force, inTry, wait, next, evs) ==
    LET call == [force |-> force, entry |-> rec, entryNow |-> now,
                 merged |-> rec, clock |-> now, state |-> "waiting",
                 sessEntry |-> sess, resp |-> NoResponse,
                 error |-> NoError]
        evs2 == evs \o <<IF force THEN "ea_force" ELSE "ea">>
    IN  /\ access_data' = rec
        /\ IF NeedsRefresh(rec, now, force)
           THEN /\ ea' = call
                /\ sentToken' = Get(rec, "refresh_token", "")
                /\ events' = evs2 \o <<"refresh">>
                /\ pc' = wait
                /\ UNCHANGED <<sess, result, dirExists, fileExists,
                               fileConf, conf>>
           ELSE IF PrepSessRaises(rec)
           THEN /\ ea' = [call EXCEPT !.state = "raised",
                                      !.error = [type |-> "KeyError",
                                                 body |-> ""]]
                /\ UNCHANGED <<sess, sentToken>>
                /\ IF inTry
                   THEN Finally("error", evs2)
                   ELSE Propagate(evs2)
           ELSE /\ ea' = [call EXCEPT !.state = "returned"]
                /\ sess' = PrepSess(rec)
                /\ events' = evs2 \o YieldEvents(next)
                /\ pc' = next
                /\ UNCHANGED <<sentToken, result, dirExists, fileExists,
                               fileConf, conf>>

\* Client.from_config: the client gets a copy of the section, then
\* enable_access()
FromConfig ==
    /\ pc = "from_config"
    /\ UNCHANGED tasks
    /\ EnableAccessBegin(conf["questrade"], FALSE, InTry(pc),
                         "refresh_init", "probe1", events)
    /\ UNCHANGED <<now, lastResp, probeAuth, probeRec, atYield>>

\* the token endpoint answers 200: _new_auth_token merges the body,
\* enable_access stores the expiry and prepares the session
RefreshOk ==
    /\ pc \in {"refresh_init", "refresh_forced"}
    /\ UNCHANGED tasks
    /\ \E data \in RefreshResponses :
         LET merged == MergeResponse(access_data, data)
             rec == Put(merged, "expires_at", ExpiresAt(now, data))
         IN  /\ access_data' = rec
             /\ lastResp' = data
             /\ sess' = PrepSess(rec)
             /\ ea' = [ea EXCEPT !.state = "returned", !.merged = merged,
                                 !.clock = now]
    /\ pc' = IF pc = "refresh_init" THEN "probe1" ELSE AfterForcedRefresh
    /\ events' = events \o <<"refresh_ok">> \o YieldEvents(pc')
    /\ IF pc' = "yielded"
       THEN atYield' = access_data'
       ELSE UNCHANGED atYield
    /\ UNCHANGED <<now, dirExists, fileExists, fileConf, conf, result,
                   sentToken, probeAuth, probeRec>>

\* the token endpoint gives an answer on which resproc raises; the
\* exception leaves _new_auth_token, enable_access and get_client
RefreshFail ==
    /\ pc \in {"refresh_init", "refresh_forced"}
    /\ UNCHANGED tasks
    /\ \E resp \in ErrorResponses :
         /\ ea' = [ea EXCEPT !.state = "raised", !.resp = resp,
                             !.error = ResprocError(resp)]
         /\ access_data' = RecordOnError(access_data, resp)
    /\ IF InTry(pc)
       THEN Finally("error", events \o <<"refresh_fail">>)
       ELSE Propagate(events \o <<"refresh_fail">>)
    /\ UNCHANGED <<now, sess, lastResp, sentToken, probeAuth, probeRec,
                   atYield>>

\* client.api.time() succeeds; the client is yielded to the caller
ProbeOk ==
    /\ pc \in {"probe1", "probe2"}
    /\ UNCHANGED tasks
    /\ probeAuth' = sess.Authorization
    /\ probeRec' = access_data
    /\ pc' = ProbeOkTarget(pc)
    /\ events' = events \o <<"probe_ok">> \o YieldEvents(pc')
    /\ atYield' = access_data
    /\ UNCHANGED <<now, dirExists, fileExists, fileConf, conf, access_data,
                   sess, result, ea, lastResp, sentToken>>

\* client.api.time() raises: the first failure enters the except branch,
\* enable_access(force_refresh=True); the second leaves get_client through
\* the finally block
ProbeFail ==
    /\ pc \in {"probe1", "probe2"}
    /\ UNCHANGED tasks
    /\ probeAuth' = sess.Authorization
    /\ probeRec' = access_data
    /\ IF ProbeFailTarget(pc) = "refresh_forced"
       THEN EnableAccessBegin(access_data, TRUE, TRUE, "refresh_forced",
                              AfterForcedRefresh, events \o <<"probe_fail">>)
       ELSE /\ UNCHANGED <<access_data, sess, ea, sentToken>>
            /\ IF InTry(pc)
               THEN Finally("error", events \o <<"probe_fail">>)
               ELSE Propagate(events \o <<"probe_fail">>)
    /\ UNCHANGED <<now, lastResp, atYield>>

\* the caller leaves the "async with" block
Release ==
    /\ pc = "yielded"
    /\ UNCHANGED tasks
    /\ UNCHANGED <<now, access_data, sess, ea, lastResp, sentToken,
                   probeAuth, probeRec, atYield>>
    /\ \E outcome \in CallerOutcomes :
         LET res == CASE outcome = "normal" -> "ok"
                      [] outcome = "raise" -> "error"
                      [] OTHER -> "cancelled"
         IN  IF FinallyRuns(outcome)
             THEN Finally(res, events \o <<"release">>)
             ELSE /\ events' = events \o <<"release">>
                  /\ pc' = "done"
                  /\ result' = res
                  /\ UNCHANGED <<dirExists, fileExists, fileConf, conf>>

Next ==
    \/ Tick
    \/ LoadFail
    \/ GetConfigStored
    \/ GetConfigPrompt
    \/ FromConfig
    \/ RefreshOk
    \/ RefreshFail
    \/ ProbeOk
    \/ ProbeFail
    \/ Release

Spec == Init /\ [][Next]_vars

----------------------------------------------------------------------------
(* The config store used on its own: config.load and config.write *)

getClientVars ==
    <<conf, access_data, sess, pc, result, ea, lastResp, sentToken,
      probeAuth, probeRec, atYield>>

InitStore ==
    /\ now = T0
    /\ \E exists \in BOOLEAN :
         /\ fileExists = exists
         /\ dirExists \in (IF exists THEN {TRUE} ELSE BOOLEAN)
         /\ fileConf \in (IF exists THEN InitialFiles ELSE {EmptyRec})
    /\ conf = EmptyRec
    /\ access_data = EmptyRec
    /\ sess = [Authorization |-> <<>>, base_location |-> <<>>]
    /\ pc = "store"
    /\ result = "none"
    /\ events = <<>>
    /\ ea = NoCall
    /\ lastResp = EmptyRec
    /\ sentToken = ""
    /\ probeAuth = <<>>
    /\ probeRec = EmptyRec
    /\ atYield = EmptyRec
    /\ tasks = NoTasks

\* config.write(config); the log tells whether os.makedirs was called and
\* whether the call raised ValueError
StoreWrite ==
    /\ Len(events) < 2 * MaxStoreCalls
    /\ \E config \in WriteInputs :
         /\ ConfigWrite(config)
         /\ events' = events
                \o (IF dirExists THEN <<>> ELSE <<"makedirs">>)
                \o <<IF WriteRaises(config) THEN "write_blank" ELSE "write">>
    /\ UNCHANGED <<now, tasks>>
    /\ UNCHANGED getClientVars

\* config.load(): toml.load of the file, which raises when it is missing
StoreLoad ==
    /\ Len(events) < 2 * MaxStoreCalls
    /\ IF fileExists
       THEN /\ conf' = fileConf
            /\ events' = events \o <<"load">>
       ELSE /\ conf' = conf
            /\ events' = events \o <<"load_fail">>
    /\ UNCHANGED <<now, dirExists, fileExists, fileConf, access_data, sess,
                   pc, result, ea, lastResp, sentToken, probeAuth, probeRec,
                   atYield, tasks>>

NextStore ==
    \/ StoreWrite
    \/ StoreLoad

SpecStore == InitStore /\ [][NextStore]_vars

----------------------------------------------------------------------------
(* One Client used by two tasks: enable_access, api.time and
   _revoke_auth_token, each split at its await *)

getClientOnly ==
    <<dirExists, fileExists, fileConf, conf, pc, result, events, ea,
      lastResp, sentToken, probeAuth, probeRec, atYield>>

InitClient ==
    /\ now = T0
    /\ dirExists = TRUE
    /\ fileExists = FALSE
    /\ fileConf = EmptyRec
    /\ conf = EmptyRec
    /\ access_data \in ClientRecords
    /\ sess = [Authorization |-> <<>>, base_location |-> <<>>]
    /\ pc = "client"
    /\ result = "none"
    /\ events = <<>>
    /\ ea = NoCall
    /\ lastResp = EmptyRec
    /\ sentToken = ""
    /\ probeAuth = <<>>
    /\ probeRec = EmptyRec
    /\ atYield = EmptyRec
    /\ tasks = NoTasks

\* _revoke_auth_token: an exception of asks.post leaves the method, any
\* response is returned without a look at its status
RevokeResult(outcome) ==
    IF outcome = "transport_error" THEN "raised" ELSE "returned"

Enter(t, op, p, token) ==
    [tasks EXCEPT ![t] = [pc |-> p, op |-> op, result |-> "none",
                          sent |-> token, outcome |-> "none",
                          calls |-> @.calls + 1]]

Leave(t, res, outcome) ==
    [tasks EXCEPT ![t].pc = "idle", ![t].result = res,
                  ![t].outcome = outcome]

\* a task calls enable_access: up to the refresh request, or through
\* _prep_sess to the return when no refresh is needed
TaskEnableAccess(t) ==
    /\ tasks[t].pc = "idle"
    /\ tasks[t].calls < MaxCalls
    /\ \E force \in BOOLEAN :
         IF NeedsRefresh(access_data, now, force)
         THEN /\ tasks' = Enter(t, "enable_access", "refresh_wait",
                                access_data["refresh_token"])
              /\ UNCHANGED <<access_data, sess>>
         ELSE IF PrepSessRaises(access_data)
         THEN /\ tasks' = Leave(Enter(t, "enable_access", "idle", "")
                                , "raised", "KeyError")
              /\ UNCHANGED <<access_data, sess>>
         ELSE /\ tasks' = [Enter(t, "enable_access", "idle", "")
                             EXCEPT ![t].result = "returned"]
              /\ sess' = PrepSess(access_data)
              /\ UNCHANGED access_data
    /\ UNCHANGED now
    /\ UNCHANGED getClientOnly

\* the refresh request of a task is answered 200
TaskRefreshOk(t) ==
    /\ tasks[t].pc = "refresh_wait"
    /\ \E data \in RefreshResponses :
         /\ access_data' = Put(MergeResponse(access_data, data),
                               "expires_at", ExpiresAt(now, data))
         /\ sess' = PrepSess(access_data')
    /\ tasks' = Leave(t, "returned", "ok")
    /\ UNCHANGED now
    /\ UNCHANGED getClientOnly

\* the refresh request of a task gets an answer on which resproc raises
TaskRefreshFail(t) ==
    /\ tasks[t].pc = "refresh_wait"
    /\ \E resp \in ErrorResponses :
         /\ access_data' = RecordOnError(access_data, resp)
         /\ tasks' = Leave(t, "raised", ResprocError(resp).type)
    /\ UNCHANGED <<now, sess>>
    /\ UNCHANGED getClientOnly

\* a task calls client.api.time()
TaskProbe(t) ==
    /\ tasks[t].pc = "idle"
    /\ tasks[t].calls < MaxCalls
    /\ tasks' = Enter(t, "time", "probe_wait", "")
    /\ UNCHANGED <<now, access_data, sess>>
    /\ UNCHANGED getClientOnly

\* the liveness request of a task is answered
TaskProbeDone(t) ==
    /\ tasks[t].pc = "probe_wait"
    /\ \E ok \in BOOLEAN :
         tasks' = IF ok THEN Leave(t, "returned", "ok")
                        ELSE Leave(t, "raised", "QuestradeError")
    /\ UNCHANGED <<now, access_data, sess>>
    /\ UNCHANGED getClientOnly

\* a task calls client._revoke_auth_token()
TaskRevoke(t) ==
    /\ tasks[t].pc = "idle"
    /\ tasks[t].calls < MaxCalls
    /\ "refresh_token" \in DOMAIN access_data
    /\ tasks' = Enter(t, "revoke", "revoke_wait",
                      access_data["refresh_token"])
    /\ UNCHANGED <<now, access_data, sess>>
    /\ UNCHANGED getClientOnly

\* the revoke request of a task ends
TaskRevokeDone(t) ==
    /\ tasks[t].pc = "revoke_wait"
    /\ \E outcome \in RevokeOutcomes :
         tasks' = Leave(t, RevokeResult(outcome), outcome)
    /\ UNCHANGED <<now, access_data, sess>>
    /\ UNCHANGED getClientOnly

\* the wall clock advances while tasks run
ClientTick ==
    /\ now < MaxClock
    /\ now' = now + 1
    /\ UNCHANGED <<access_data, sess, tasks>>
    /\ UNCHANGED getClientOnly

NextClient ==
    \/ ClientTick
    \/ \E t \in Tasks : TaskEnableAccess(t)
    \/ \E t \in Tasks : TaskRefreshOk(t)
    \/ \E t \in Tasks : TaskRefreshFail(t)
    \/ \E t \in Tasks : TaskProbe(t)
    \/ \E t \in Tasks : TaskProbeDone(t)
    \/ \E t \in Tasks : TaskRevoke(t)
    \/ \E t \in Tasks : TaskRevokeDone(t)

SpecClient == InitClient /\ [][NextClient]_vars

----------------------------------------------------------------------------
(* Properties *)

Max(S) == CHOOSE x \in S : \A y \in S : y <= x

Min(S) == CHOOSE x \in S : \A y \in S : x <= y

Probes == Positions("probe_ok") \cup Positions("probe_fail")

HandedOut == Positions("yield") # {}

\* C1: the client is handed to the caller only if the most recent liveness
\* probe succeeded and neither a refresh nor any other change of the
\* record's access_token happened between that probe and the hand-out.
C1_HandOutOnlyAfterGoodProbe ==
    HandedOut =>
        LET y == Min(Positions("yield"))
            before == {i \in Probes : i < y}
        IN  /\ before # {}
            /\ events[Max(before)] = "probe_ok"
            /\ \A k \in (Max(before) + 1)..(y - 1) :
                   events[k] \notin {"ea", "ea_force", "refresh",
                                     "refresh_ok", "refresh_fail"}
            /\ atYield = probeRec

\* the client was handed out after the first probe failed and the second
\* succeeded
C1_Witness ==
    /\ pc = "yielded"
    /\ Count("probe_fail") = 1
    /\ Count("probe_ok") = 1

\* C2: the liveness probe is issued at most twice; the second probe happens
\* only if the first raised and after exactly one
\* enable_access(force_refresh=True) in between; a failed second probe
\* leaves get_client as an error without the session being handed out.
C2_AtMostOneRetry ==
    /\ Cardinality(Probes) <= 2
    /\ \A i, j \in Probes :
          i < j =>
            /\ events[i] = "probe_fail"
            /\ Cardinality({k \in Positions("ea_force") : i < k /\ k < j}) = 1
            /\ Cardinality({k \in Positions("refresh_ok") : i < k /\ k < j}) = 1
    /\ Count("ea_force") <= 1
    /\ Count("probe_fail") = 2 =>
          /\ ~HandedOut
          /\ pc = "done"
          /\ result = "error"

\* both probes failed
C2_Witness ==
    /\ Count("probe_fail") = 2
    /\ Count("ea_force") = 1
    /\ result = "error"

Writes == Count("write")

\* C3 as stated: whenever get_client ends without having handed out the
\* session, config.write was never called.
C3_Original ==
    (pc = "done" /\ ~HandedOut) => Writes = 0

\* C3 as amended: when get_client ends without having handed out the
\* session, config.write was not called if the failure came before the
\* first liveness probe (config load or initial enable_access failed), and
\* was called exactly once, with the client's record, if the forced refresh
\* or the second probe failed.
C3_FailedOpenWrites ==
    (pc = "done" /\ ~HandedOut) =>
        IF Probes = {}
        THEN Writes = 0
        ELSE /\ Writes = 1
             /\ fileExists
             /\ fileConf["questrade"] = access_data

\* a failed open whose finally block wrote the store
C3_Witness ==
    /\ pc = "done"
    /\ ~HandedOut
    /\ Writes = 1
    /\ Count("refresh_fail") = 1
    /\ Count("probe_fail") = 1

\* C4: once the session was handed out, the teardown flush runs exactly
\* once when the handle is released, whether the caller's work ended
\* normally, with an error or by cancellation: never before the release,
\* never zero times, never twice.
C4_TeardownExactlyOnce ==
    HandedOut =>
        /\ pc \in {"yielded", "done"}
        /\ Writes = (IF pc = "done" THEN 1 ELSE 0)
        /\ pc = "done" =>
              /\ Count("release") = 1
              /\ events[Len(events)] = "write"
              /\ result \in {"ok", "error", "cancelled"}

\* a cancelled caller whose session was flushed once
C4_Witness ==
    /\ HandedOut
    /\ pc = "done"
    /\ result = "cancelled"
    /\ Writes = 1

\* C5: after the teardown of an opened session the record stored under
\* the provider key equals the client's record at release, which carries
\* access_token, refresh_token and expires_at of the most recent
\* successful refresh, also when the caller's work failed.
C5_StoreHoldsLastRefresh ==
    (HandedOut /\ pc = "done") =>
        /\ fileExists
        /\ "questrade" \in DOMAIN fileConf
        /\ fileConf["questrade"] = access_data
        /\ Count("refresh_ok") > 0 =>
              /\ fileConf["questrade"]["access_token"] =
                    lastResp["access_token"]
              /\ fileConf["questrade"]["refresh_token"] =
                    lastResp["refresh_token"]
              /\ fileConf["questrade"]["expires_at"] =
                    ea.clock + lastResp["expires_in"]

\* the caller failed after a session was opened with a refreshed token
C5_Witness ==
    /\ HandedOut
    /\ pc = "done"
    /\ result = "error"
    /\ Count("refresh_ok") = 2
    /\ fileConf["questrade"]["refresh_token"] = "abc3"

\* the refresh requests sent by the most recent enable_access call
LastCallRefreshes ==
    LET start == Max(Positions("ea") \cup Positions("ea_force"))
    IN  Cardinality({k \in Positions("refresh") : k > start})

\* C6: for a record whose expires_at is in the past or whose access_token
\* is absent, one call of enable_access issues exactly one refresh call:
\* one is on its way or answered at every moment from the first await on,
\* and exactly one was made when the call has returned.
C6_StaleRecordRefreshedOnce ==
    (/\ ea.state # "none"
     /\ \/ "access_token" \notin DOMAIN ea.entry
        \/ /\ "expires_at" \in DOMAIN ea.entry
           /\ ea.entry["expires_at"] < ea.entryNow)
    => LastCallRefreshes = 1

\* an unforced call on a record with a token that expired has returned
C6_Witness ==
    /\ ea.state = "returned"
    /\ ~ea.force
    /\ Truthy(ea.entry, "access_token")
    /\ "expires_at" \in DOMAIN ea.entry
    /\ ea.entry["expires_at"] < ea.entryNow
    /\ LastCallRefreshes = 1

\* C7: for a record with a (non-empty) access_token and expires_at in the
\* future, enable_access(force_refresh=False) issues no refresh call and
\* leaves access_token, refresh_token and expires_at unchanged.
C7_FreshRecordUntouched ==
    (/\ ea.state # "none"
     /\ ~ea.force
     /\ Truthy(ea.entry, "access_token")
     /\ "expires_at" \in DOMAIN ea.entry
     /\ ea.entry["expires_at"] > ea.entryNow)
    => /\ LastCallRefreshes = 0
       /\ access_data = ea.entry
       /\ \A k \in {"access_token", "refresh_token", "expires_at"} :
             /\ k \in DOMAIN access_data
             /\ access_data[k] = ea.entry[k]

\* an unforced call on a fresh record has returned and the probe is next
C7_Witness ==
    /\ ea.state = "returned"
    /\ ~ea.force
    /\ pc = "probe1"
    /\ Truthy(ea.entry, "access_token")
    /\ ea.entry["expires_at"] > ea.entryNow
    /\ Count("refresh") = 0

\* C8 as stated: enable_access refreshes whenever force_refresh is true,
\* access_token is absent, or now >= expires_at.
C8_Original ==
    (/\ ea.state # "none"
     /\ \/ ea.force
        \/ ~Truthy(ea.entry, "access_token")
        \/ ea.entryNow >= Get(ea.entry, "expires_at", 0))
    => LastCallRefreshes >= 1

\* C8 as amended: enable_access refreshes whenever force_refresh is true,
\* access_token is absent or empty, or now > expires_at; with access_token
\* present and force_refresh false, a record whose expires_at equals the
\* clock reading exactly is not refreshed.
C8_RefreshCondition ==
    ea.state # "none" =>
        /\ (\/ ea.force
            \/ ~Truthy(ea.entry, "access_token")
            \/ ea.entryNow > Get(ea.entry, "expires_at", 0))
           => LastCallRefreshes = 1
        /\ (/\ ~ea.force
            /\ Truthy(ea.entry, "access_token")
            /\ ea.entryNow = Get(ea.entry, "expires_at", 0))
           => LastCallRefreshes = 0

\* a record expiring at the clock reading of the call was not refreshed
C8_Witness ==
    /\ ea.state = "returned"
    /\ ~ea.force
    /\ Truthy(ea.entry, "access_token")
    /\ ea.entryNow = Get(ea.entry, "expires_at", 0)
    /\ LastCallRefreshes = 0

\* C9: when the refresh call succeeds every field of the response is
\* merged into the record and overwrites the field of the same name, so
\* that access_token, token_type, api_server and refresh_token are those of
\* the response; fields the response does not contain keep their values.
C9_ResponseMerged ==
    (ea.state = "returned" /\ LastCallRefreshes = 1) =>
        /\ DOMAIN ea.merged = DOMAIN ea.entry \cup DOMAIN lastResp
        /\ \A k \in DOMAIN lastResp : ea.merged[k] = lastResp[k]
        /\ \A k \in DOMAIN ea.entry \ DOMAIN lastResp :
              ea.merged[k] = ea.entry[k]
        /\ \A k \in {"access_token", "token_type", "api_server",
                      "refresh_token"} : access_data[k] = lastResp[k]
        /\ \A k \in DOMAIN ea.entry \ (DOMAIN lastResp \cup {"expires_at"}) :
              access_data[k] = ea.entry[k]

\* a forced refresh sent "abc2" and got "abc3" back, on a record that has
\* a field the response lacks
C9_Witness ==
    /\ ea.state = "returned"
    /\ ea.force
    /\ sentToken = "abc2"
    /\ access_data["refresh_token"] = "abc3"
    /\ "user" \in DOMAIN access_data

\* C10 as stated: after every return of enable_access expires_at is the
\* clock reading of the call plus expires_in of the record, and is greater
\* than the clock reading taken at the entry of the call.
C10_Original ==
    ea.state = "returned" =>
        /\ "expires_at" \in DOMAIN access_data
        /\ "expires_in" \in DOMAIN access_data
        /\ access_data["expires_at"] > ea.entryNow
        /\ access_data["expires_at"] = ea.clock + access_data["expires_in"]

\* C10 as amended: when enable_access has refreshed and returned,
\* expires_at is the clock reading taken after the refresh response plus
\* expires_in of that response, hence at least expires_in past the clock
\* reading at the entry of the call; when it returns without refreshing,
\* expires_at is the loaded value, unchanged and not in the past.
C10_ExpiryFromLocalClock ==
    ea.state = "returned" =>
        IF LastCallRefreshes = 1
        THEN /\ access_data["expires_at"] = ea.clock + lastResp["expires_in"]
             /\ access_data["expires_in"] = lastResp["expires_in"]
             /\ ea.clock >= ea.entryNow
             /\ access_data["expires_at"] >=
                    ea.entryNow + lastResp["expires_in"]
        ELSE /\ access_data["expires_at"] = ea.entry["expires_at"]
             /\ access_data["expires_at"] >= ea.entryNow

\* the clock advanced while the refresh request was under way
C10_Witness ==
    /\ ea.state = "returned"
    /\ LastCallRefreshes = 1
    /\ ea.clock > ea.entryNow
    /\ access_data["expires_at"] = ea.clock + lastResp["expires_in"]

\* C11 as stated: when the refresh call returns a non-200 status,
\* enable_access fails with the auth error (QuestradeError) that carries the
\* response body, after one refresh call and without returning a record.
C11_Original ==
    (ea.state = "raised" /\ ea.resp.status \notin {0, 200}) =>
        /\ ea.error = [type |-> "QuestradeError", body |-> ea.resp.body]
        /\ LastCallRefreshes = 1

\* C13 as stated: no refresh request is ever sent with an absent or empty
\* refresh_token.
C13_Original ==
    Count("refresh") > 0 => sentToken # ""

\* C16: whenever enable_access has returned, and therefore at every
\* liveness probe and at the hand-out, the session's Authorization header is
\* "<token_type> <access_token>" of the current record and its base URL is
\* the record's api_server followed by the API version.
C16_SessionMatchesRecord ==
    /\ ea.state = "returned" =>
          /\ sess.Authorization =
                <<access_data["token_type"], access_data["access_token"]>>
          /\ sess.base_location = <<access_data["api_server"], "v1">>
    /\ Probes # {} =>
          /\ probeAuth =
                <<probeRec["token_type"], probeRec["access_token"]>>
    /\ HandedOut =>
          /\ sess.Authorization =
                <<atYield["token_type"], atYield["access_token"]>>
          /\ sess.base_location = <<atYield["api_server"], "v1">>

\* the second probe is next, with the header of the forced refresh's token
\* where the session carried another token before
C16_Witness ==
    /\ pc = "probe2"
    /\ ea.state = "returned"
    /\ sess.Authorization[2] = lastResp["access_token"]
    /\ ea.sessEntry.Authorization # sess.Authorization

\* C17: enable_access(force_refresh=True) is called only right after a
\* failed first probe; when the first probe succeeds it is never called, so
\* an expired record with a succeeding probe costs exactly one refresh call
\* and the session opens; no run makes more than two refresh calls.
C17_ForcedRefreshOnlyAfterFailedProbe ==
    /\ \A k \in Positions("ea_force") :
          /\ k > 1
          /\ events[k - 1] = "probe_fail"
          /\ {i \in Probes : i < k} = {k - 1}
    /\ (Probes # {} /\ events[Min(Probes)] = "probe_ok") =>
          /\ Count("ea_force") = 0
          /\ HandedOut
          /\ (/\ Truthy(ea.entry, "access_token")
              /\ Get(ea.entry, "expires_at", 0) < ea.entryNow)
             => Count("refresh") = 1
    /\ Count("refresh") <= 2

\* a session opened on an expired record after one refresh and one probe
C17_Witness ==
    /\ pc = "yielded"
    /\ Truthy(ea.entry, "access_token")
    /\ "expires_at" \in DOMAIN ea.entry
    /\ ea.entry["expires_at"] = T0 - 1
    /\ Count("refresh") = 1
    /\ Count("probe_ok") = 1
    /\ Count("ea_force") = 0

\* C18: when the refresh call returns a non-200 status, every field of the
\* in-memory record and the session's Authorization header and base URL
\* are the same after the failed enable_access as before it.
C18_FailedRefreshChangesNothing ==
    (ea.state = "raised" /\ ea.resp.status \notin {0, 200}) =>
        /\ access_data = ea.entry
        /\ sess = ea.sessEntry

\* the forced refresh of a record that holds a token was answered 400
C18_Witness ==
    /\ ea.state = "raised"
    /\ ea.force
    /\ ea.resp.status = 400
    /\ Truthy(access_data, "access_token")
    /\ sess.Authorization # <<>>

\* C19: whenever a refresh call has succeeded during get_client, the run
\* does not end before config.write was called with a record whose
\* refresh_token is the one of the last successful refresh, also when both
\* probes, the forced refresh or the caller's work fail.
C19_RotatedTokenStored ==
    (pc = "done" /\ Count("refresh_ok") > 0) =>
        /\ Writes = 1
        /\ events[Len(events)] = "write"
        /\ fileExists
        /\ fileConf["questrade"]["refresh_token"] = lastResp["refresh_token"]

\* the initial refresh rotated the token, then the forced refresh failed
C19_Witness ==
    /\ pc = "done"
    /\ ~HandedOut
    /\ Count("refresh_ok") = 1
    /\ Count("refresh_fail") = 1
    /\ fileConf["questrade"]["refresh_token"] = lastResp["refresh_token"]

\* C20: if the initial enable_access of Client.from_config fails because
\* the refresh returns non-200, get_client ends with the error without
\* a liveness probe, a forced refresh, a config.write or a hand-out.
C20_InitialFailurePropagates ==
    (/\ ea.state = "raised"
     /\ ~ea.force
     /\ ea.resp.status \notin {0, 200})
    => /\ pc = "done"
       /\ result = "error"
       /\ Probes = {}
       /\ Count("ea_force") = 0
       /\ Count("refresh") = 1
       /\ Writes = 0
       /\ ~HandedOut
       /\ conf["questrade"] = ea.entry

\* the refresh of a seeded record was refused
C20_Witness ==
    /\ pc = "done"
    /\ ea.state = "raised"
    /\ ~ea.force
    /\ ea.resp.status = 400
    /\ ea.entry = SeedRecord
    /\ Writes = 0

InFlight(p) == {t \in Tasks : tasks[t].pc = p}

\* C12 as stated: at most one refresh call is in flight at any time for
\* the record, the same refresh_token is never sent in two overlapping
\* refresh requests, and no probe runs while a refresh is in flight.
C12_Original ==
    /\ Cardinality(InFlight("refresh_wait")) <= 1
    /\ \A t, u \in InFlight("refresh_wait") :
          t # u => tasks[t].sent # tasks[u].sent
    /\ InFlight("refresh_wait") = {} \/ InFlight("probe_wait") = {}

\* C14 as stated: a config.write with an empty mapping fails without
\* touching the filesystem, so it never follows a directory creation of
\* its own.
C14_Original ==
    \A i \in Positions("write_blank") :
        i = 1 \/ events[i - 1] # "makedirs"

\* C15 as stated: no error ever leaves _revoke_auth_token; a failed revoke
\* request ends in a normal return.
C15_Original ==
    \A t \in Tasks :
        (tasks[t].op = "revoke" /\ tasks[t].pc = "idle") =>
            tasks[t].result = "returned"

====
